---- MODULE Spec2Model ----
(***************************************************************************)
(* A state-machine model of AccessibilityManager (xterm.js): the window of *)
(* accessible row nodes, its two boundary focus listeners, the debounced   *)
(* row rendering, the live region with echo suppression, and dispose().    *)
(*                                                                         *)
(* Row nodes are identified by small integers; 0 stands for "no node"      *)
(* (null / an element outside the accessibility tree).  Node attributes    *)
(* are kept in functions over the node identities.  A node that nothing    *)
(* references any more (not in the DOM, no listener, not focused) is       *)
(* garbage: its identity may be reused by a later createElement, which     *)
(* resets its attributes.                                                  *)
(***************************************************************************)
EXTENDS Integers, Sequences, FiniteSets, TLC

\* ---------------------------------------------------------------- bounds
MaxRows == 3
MaxBuf == 4
MaxCellHeight == 1
MaxReqs == 2
MaxQueue == 2
MaxLive == 3
MaxTimers == 2
MaxTab == 2
MaxPrintable == 1

\* ------------------------------------------------------ program constants
MAX_ROWS_TO_READ == 20

VARIABLES
  \* terminal side (ITerminal, IBuffer, renderer)
  rows,          \* _terminal.rows
  bufLen,        \* _terminal.buffer.lines.length
  ydisp,         \* _terminal.buffer.ydisp
  cellHeight,    \* _terminal.renderer.dimensions.actualCellHeight (0: not measured)
  \* accessibility tree
  rowElements,   \* _rowElements
  children,      \* _rowContainer.children
  topL,          \* nodes carrying _topBoundaryFocusListener
  botL,          \* nodes carrying _bottomBoundaryFocusListener
  text,          \* textContent of each node
  posinset,      \* aria-posinset of each node (0: attribute absent)
  setsize,       \* aria-setsize of each node (0: attribute absent)
  height,        \* style.height last written to each node (-1: never written)
  focus,         \* document.activeElement when it is a row node, else 0
  \* RenderDebouncer
  pending,       \* a flush is scheduled for the next frame
  rowStart,
  rowEnd,
  \* lifecycle
  subs,          \* the event subscriptions held in _disposables
  rootAttached,  \* _accessibilityTreeRoot is a child of _terminal.element
  \* live region
  isMac,
  liveText,      \* _liveRegion.textContent, one glyph per element
  liveLineCount, \* _liveRegionLineCount
  charsToConsume,\* _charsToConsume
  liveAttached,  \* _liveRegion.parentNode is not null
  timers,        \* pending setTimeout(..., 0) reattachment callbacks
  \* history
  ev,            \* the last event delivered and what its handler asked of the terminal
  reqs,          \* the refresh ranges requested since the last flush
  echo,          \* progress of a "keys typed, then echoed" run
  fed            \* progress of the line feed scenario

termVars == <<rows, bufLen, ydisp, cellHeight>>
treeVars == <<rowElements, children, topL, botL, text, posinset, setsize, height, focus>>
debVars == <<pending, rowStart, rowEnd>>
lifeVars == <<subs, rootAttached>>
liveVars == <<isMac, liveText, liveLineCount, charsToConsume, liveAttached, timers>>
histVars == <<ev, reqs, echo, fed>>
vars == <<termVars, treeVars, debVars, lifeVars, liveVars, histVars>>

\* ---------------------------------------------------------------- helpers
MaxNodes == MaxRows + 1
Nodes == 1..MaxNodes
NoNode == 0

Min(a, b) == IF a < b THEN a ELSE b
Max(a, b) == IF a > b THEN a ELSE b
Range(s) == {s[i] : i \in 1..Len(s)}
Front(s) == SubSeq(s, 1, Len(s) - 1)
Without(s, x) == SelectSeq(s, LAMBDA y : y # x)

\* The subscriptions the constructor pushes to _disposables.
AllSubs == {"resize", "refresh", "scroll", "a11y.char", "linefeed", "a11y.tab",
            "key", "blur", "dprchange", "renderer.resize", "window.resize"}

\* Strings.blankLine: the non-empty text shown for an empty line.
blankLine == "Blank line"
\* buffer.translateBufferLineToString(row, true): the buffer content is fixed
\* in the model, odd rows are empty and even rows hold a text of their own.
translateBufferLineToString(row) == IF row % 2 = 1 THEN "" ELSE ToString(row)

\* Node identities nothing refers to: free for document.createElement.
Referenced == Range(children) \cup Range(rowElements) \cup topL \cup botL \cup {focus}
Free == Nodes \ Referenced
RECURSIVE SmallestK(_, _)
SmallestK(S, k) ==
  IF k <= 0 \/ S = {} THEN <<>>
  ELSE LET m == CHOOSE x \in S : \A y \in S : x <= y
       IN <<m>> \o SmallestK(S \ {m}, k - 1)

\* _refreshRowDimensions: element.style.height = `${actualCellHeight}px`
RefreshRowDimensions(h, n, cell) == [h EXCEPT ![n] = cell]

\* _createAccessibilityTreeNode applied to the fresh identities in news:
\* a new element has no text and no aria attributes, and gets its height.
CreatedText(t, news) == [n \in Nodes |-> IF n \in news THEN "" ELSE t[n]]
CreatedAttr(a, news) == [n \in Nodes |-> IF n \in news THEN 0 ELSE a[n]]
CreatedHeight(h, news, cell) ==
  [n \in Nodes |-> IF n \in news THEN RefreshRowDimensions(h, n, cell)[n] ELSE h[n]]

\* _refreshRowsDimensions over the window re: nothing before the cell height
\* is measured, else every node rowElements[i], i < rowCount.
RefreshRowsDimensions(h, re, rowCount, cell) ==
  IF cell = 0 THEN h
  ELSE [n \in Nodes |->
          IF \E i \in 1..Min(rowCount, Len(re)) : re[i] = n
          THEN RefreshRowDimensions(h, n, cell)[n] ELSE h[n]]

\* ------------------------------------------------------- RenderDebouncer
\* refresh(start, end): widen the pending range or start a new one.
DebStart(s) == IF pending THEN Min(rowStart, s) ELSE s
DebEnd(e) == IF pending THEN Max(rowEnd, e) ELSE e

Refresh(s, e) ==
  /\ pending' = TRUE
  /\ rowStart' = DebStart(s)
  /\ rowEnd' = DebEnd(e)

\* ------------------------------------------------------------ _renderRows
\* The loop stops at the first window index that holds no element (the
\* assignment to element.textContent throws).
\* Mutant: the loop runs one index past end.
Rendered_PastEnd(s, e) == {i \in s..(e + 1) : i >= 0 /\ i < Len(rowElements)}
Rendered(s, e) == {i \in s..e : i >= 0 /\ i < Len(rowElements)}
\* The window indices the loop reads: those it renders and, when the range
\* runs past the window, the first index that holds no element.
Accessed(s, e) ==
  LET out == {i \in s..e : i >= Len(rowElements)}
  IN Rendered(s, e) \cup
       (IF out = {} THEN {} ELSE {CHOOSE i \in out : \A j \in out : i <= j})
IndexOf(n) == CHOOSE i \in 0..(Len(rowElements) - 1) : rowElements[i + 1] = n
Touched(s, e) == {rowElements[i + 1] : i \in Rendered(s, e)}

\* Mutant: an empty line is written as it is.
RenderText_NoBlank(s, e) ==
  [n \in Nodes |->
     IF n \in Touched(s, e) THEN translateBufferLineToString(ydisp + IndexOf(n))
     ELSE text[n]]
RenderText(s, e) ==
  [n \in Nodes |->
     IF n \in Touched(s, e)
     THEN LET lineData == translateBufferLineToString(ydisp + IndexOf(n))
          IN IF lineData = "" THEN blankLine ELSE lineData
     ELSE text[n]]
RenderPosInSet(s, e) ==
  [n \in Nodes |-> IF n \in Touched(s, e) THEN ydisp + IndexOf(n) + 1 ELSE posinset[n]]
RenderSetSize(s, e) ==
  [n \in Nodes |-> IF n \in Touched(s, e) THEN bufLen ELSE setsize[n]]

\* ------------------------------------------------------------ constructor
\* What the history keeps of an event: its kind, for a focus event the node
\* it went to and the side of the handler that shifted the window, for a
\* character event the character, and the deltas the handler passed to
\* _terminal.scrollLines.
Event(op, scroll) ==
  [op |-> op, target |-> 0, cross |-> "NONE", char |-> "", scroll |-> scroll]
FocusEvent(t, cross, scroll) ==
  [op |-> "focus", target |-> t, cross |-> cross, char |-> "", scroll |-> scroll]
CharEvent(op, char) ==
  [op |-> op, target |-> 0, cross |-> "NONE", char |-> char, scroll |-> <<>>]
NoEcho == [live |-> FALSE, startEmpty |-> FALSE, keys |-> <<>>, n |-> 0]

\* The state the constructor leaves, for a terminal of r rows showing the
\* buffer from line y, with measured cell height cell, on mac or not.
Constructed(r, y, cell, mac) ==
  /\ rows = r
  /\ bufLen = MaxBuf
  /\ ydisp = y
  /\ cellHeight = cell
  /\ isMac = mac
  /\ rowElements = [i \in 1..rows |-> i]
  /\ children = rowElements
  /\ topL = {rowElements[1]}
  /\ botL = {rowElements[Len(rowElements)]}
  /\ text = [n \in Nodes |-> ""]
  /\ posinset = [n \in Nodes |-> 0]
  /\ setsize = [n \in Nodes |-> 0]
  /\ height = RefreshRowsDimensions(
                 CreatedHeight([n \in Nodes |-> -1], Range(rowElements), cellHeight),
                 rowElements, rows, cellHeight)
  /\ focus = NoNode
  /\ pending = TRUE
  /\ rowStart = 0
  /\ rowEnd = rows - 1
  /\ subs = AllSubs
  /\ rootAttached = TRUE
  /\ liveText = <<>>
  /\ liveLineCount = 0
  /\ charsToConsume = <<>>
  /\ liveAttached = TRUE
  /\ timers = 0
  /\ ev = Event("init", <<>>)

\* Assign the accessibility tree; attributes of nodes nothing refers to any
\* more are dropped with the node.
Commit(re, ch, tl, bl, tx, ps, ss, ht, fc) ==
  LET live == Range(ch) \cup Range(re) \cup tl \cup bl \cup {fc}
  IN /\ rowElements' = re
     /\ children' = ch
     /\ topL' = tl
     /\ botL' = bl
     /\ focus' = fc
     /\ text' = [n \in Nodes |-> IF n \in live THEN tx[n] ELSE ""]
     /\ posinset' = [n \in Nodes |-> IF n \in live THEN ps[n] ELSE 0]
     /\ setsize' = [n \in Nodes |-> IF n \in live THEN ss[n] ELSE 0]
     /\ height' = [n \in Nodes |-> IF n \in live THEN ht[n] ELSE -1]

\* -------------------------------------------------------------- _onResize
\* termRows is this._terminal.rows, r the rows the event carries.
\* Mutant: line 164 is left out.
ResizeBottomRemoved_Kept == botL
ResizeBottomRemoved == botL \ {rowElements[Len(rowElements)]}
\* Mutant: the grow loop stops one row short.
ResizeGrowCount_Short(termRows) == Max(termRows - Len(children) - 1, 0)
ResizeGrowCount(termRows) == Max(termRows - Len(children), 0)
ResizeShrinkTo(grown, r) == SubSeq(grown, 1, Min(Len(grown), r))
ResizeBottomAdded(bl, re) == bl \cup {re[Len(re)]}

_onResize(termRows, r) ==
  LET news == SmallestK(Free, ResizeGrowCount(termRows))
      grownRe == rowElements \o news
      grownCh == children \o news
      re2 == ResizeShrinkTo(grownRe, r)
      removed == Range(grownRe) \ Range(re2)
      ch2 == SelectSeq(grownCh, LAMBDA x : x \notin removed)
      created == Range(news)
  IN /\ Cardinality(Free) >= ResizeGrowCount(termRows)
     /\ Commit(re2, ch2, topL, ResizeBottomAdded(ResizeBottomRemoved, re2),
               CreatedText(text, created), CreatedAttr(posinset, created),
               CreatedAttr(setsize, created),
               RefreshRowsDimensions(CreatedHeight(height, created, cellHeight),
                                     re2, termRows, cellHeight),
               IF focus \in removed THEN NoNode ELSE focus)

\* What the handler holds after each of its statements: the window, the
\* children of the row container and the nodes carrying each listener.
Held(re, ch, tl, bl) == [re |-> re, ch |-> ch, tl |-> tl, bl |-> bl]

\* _onResize statement by statement: the state before, after line 164, after
\* the grow loop, after the shrink loop, after line 177.
ResizeSteps(termRows, r) ==
  LET news == SmallestK(Free, ResizeGrowCount(termRows))
      s0 == Held(rowElements, children, topL, botL)
      s1 == [s0 EXCEPT !.bl = ResizeBottomRemoved]
      s2 == [s1 EXCEPT !.re = @ \o news, !.ch = @ \o news]
      s3 == [s2 EXCEPT !.re = ResizeShrinkTo(@, r),
                       !.ch = SelectSeq(@, LAMBDA x :
                                  x \notin Range(s2.re) \ Range(ResizeShrinkTo(s2.re, r)))]
      s4 == [s3 EXCEPT !.bl = ResizeBottomAdded(@, s3.re)]
  IN <<s0, s1, s2, s3, s4>>

\* The terminal takes its new size, then emits 'resize'.
OnResize(r) ==
  /\ rows' = r
  /\ bufLen' = Max(bufLen, r)
  /\ ydisp' = Min(ydisp, bufLen' - r)
  /\ UNCHANGED cellHeight
  /\ ev' = Event("resize", <<>>)
  /\ IF "resize" \in subs THEN _onResize(r, r) ELSE UNCHANGED treeVars
  /\ UNCHANGED <<debVars, lifeVars, liveVars>>

\* -------------------------------------------------------- _onBoundaryFocus
\* this._rowElements[position === TOP ? 1 : length - 2]; -1 is undefined.
BeforeBoundaryIndex(re, position) == IF position = "TOP" THEN 1 ELSE Len(re) - 2
BeforeBoundaryElement(re, position) ==
  LET i == BeforeBoundaryIndex(re, position)
  IN IF i >= 0 /\ i < Len(re) THEN re[i + 1] ELSE -1

\* lastRowPos, compared with the boundary element's aria-posinset.
LastRowPos(position) == IF position = "TOP" THEN 1 ELSE bufLen
AtBufferEnd(t, position) == posinset[t] = LastRowPos(position)

\* Mutant: where focus came from is not looked at.
Crosses_AnyOrigin(t, related, position) ==
  /\ ~AtBufferEnd(t, position)
  /\ BeforeBoundaryElement(rowElements, position) # -1
\* Both early returns passed: the handler shifts the window.
Crosses(t, related, position) ==
  /\ ~AtBufferEnd(t, position)
  /\ related = BeforeBoundaryElement(rowElements, position)

ScrollDelta(position) == IF position = "TOP" THEN -1 ELSE 1
\* _terminal.scrollLines(delta): the view moves within the buffer.
ScrollLines(delta) == Max(Min(ydisp + delta, bufLen - rows), 0)

RemovedByCross(t, position) ==
  IF position = "TOP" THEN rowElements[Len(rowElements)] ELSE rowElements[1]
AfterRemove(position) ==
  IF position = "TOP" THEN Front(rowElements) ELSE Tail(rowElements)
\* Mutant: the new element always goes to the end.
AfterInsert_AlwaysPush(re, new, position) == Append(re, new)
AfterInsert(re, new, position) ==
  IF position = "TOP" THEN <<new>> \o re ELSE Append(re, new)
\* Mutant: the new boundary nodes get no listener.
CrossListenersAdded_Skipped(L, el) == L
\* Mutant: the old boundary listeners are left in place.
CrossListenersRemoved_Kept(L, el) == L
CrossListenersRemoved(L, el) == L \ {el}
CrossListenersAdded(L, el) == L \cup {el}
\* Mutant: focus is sent to the new boundary node.
FocusAfterCross_Boundary(re, position) == IF position = "TOP" THEN re[1] ELSE re[Len(re)]
FocusAfterCross(re, position) == re[BeforeBoundaryIndex(re, position) + 1]

Cross(t, related, position) ==
  LET gone == RemovedByCross(t, position)
      topBoundaryElement == IF position = "TOP" THEN t ELSE gone
      bottomBoundaryElement == IF position = "TOP" THEN gone ELSE t
      re1 == AfterRemove(position)
      ch1 == Without(children, gone)
      tl1 == CrossListenersRemoved(topL, topBoundaryElement)
      bl1 == CrossListenersRemoved(botL, bottomBoundaryElement)
      new == SmallestK(Free, 1)[1]
      re2 == AfterInsert(re1, new, position)
      ch2 == AfterInsert(ch1, new, position)
      tl2 == CrossListenersAdded(tl1, re2[1])
      bl2 == CrossListenersAdded(bl1, re2[Len(re2)])
  IN /\ Free # {}
     /\ ydisp' = ScrollLines(ScrollDelta(position))
     /\ ev' = FocusEvent(t, position, <<ScrollDelta(position)>>)
     /\ Commit(re2, ch2, tl2, bl2,
               CreatedText(text, {new}), CreatedAttr(posinset, {new}),
               CreatedAttr(setsize, {new}), CreatedHeight(height, {new}, cellHeight),
               FocusAfterCross(re2, position))

\* The shift statement by statement: the state before, then after each of
\* lines 124/127, 125/129, 133, 134, 139/143, 140/144, 148 and 149.
CrossSteps(t, position) ==
  LET gone == RemovedByCross(t, position)
      topBoundaryElement == IF position = "TOP" THEN t ELSE gone
      bottomBoundaryElement == IF position = "TOP" THEN gone ELSE t
      new == SmallestK(Free, 1)[1]
      s0 == Held(rowElements, children, topL, botL)
      s1 == [s0 EXCEPT !.re = AfterRemove(position)]
      s2 == [s1 EXCEPT !.ch = Without(@, gone)]
      s3 == [s2 EXCEPT !.tl = CrossListenersRemoved(@, topBoundaryElement)]
      s4 == [s3 EXCEPT !.bl = CrossListenersRemoved(@, bottomBoundaryElement)]
      s5 == [s4 EXCEPT !.re = AfterInsert(@, new, position)]
      s6 == [s5 EXCEPT !.ch = AfterInsert(@, new, position)]
      s7 == [s6 EXCEPT !.tl = CrossListenersAdded(@, s6.re[1])]
      s8 == [s7 EXCEPT !.bl = CrossListenersAdded(@, s7.re[Len(s7.re)])]
  IN <<s0, s1, s2, s3, s4, s5, s6, s7, s8>>

\* A focus event on row node t, focus arriving from the node focused before
\* (relatedTarget).  Only nodes in the document can take focus.  The top
\* listener is registered before the bottom one; a handler that shifts the
\* window stops the propagation of the event.
OnFocus(t) ==
  /\ rootAttached
  /\ t \in Range(children)
  /\ t # focus
  /\ LET related == focus
     IN IF t \in topL /\ Crosses(t, related, "TOP") THEN Cross(t, related, "TOP")
        ELSE IF t \in botL /\ Crosses(t, related, "BOTTOM") THEN Cross(t, related, "BOTTOM")
        ELSE /\ ev' = FocusEvent(t, "NONE", <<>>)
             /\ focus' = t
             /\ UNCHANGED <<ydisp, rowElements, children, topL, botL, text, posinset,
                            setsize, height>>
  /\ UNCHANGED <<rows, bufLen, cellHeight, debVars, lifeVars, liveVars>>

\* Focus leaves the row nodes.
OnFocusOut ==
  /\ focus # NoNode
  /\ focus' = NoNode
  /\ ev' = Event("focusout", <<>>)
  /\ UNCHANGED <<termVars, rowElements, children, topL, botL, text, posinset, setsize,
                 height, debVars, lifeVars, liveVars>>

\* ------------------------------------------------- refresh, scroll, flush
\* 'refresh' from the renderer: _refreshRows(data.start, data.end).
OnRefresh(s, e) ==
  /\ s <= e
  /\ ev' = Event("refresh", <<>>)
  /\ IF "refresh" \in subs THEN Refresh(s, e) ELSE UNCHANGED debVars
  /\ UNCHANGED <<termVars, treeVars, lifeVars, liveVars>>

\* 'scroll': the view moved to y; _refreshRows() asks for the whole window.
WholeWindow == <<0, rows - 1>>
OnScroll(y) ==
  /\ ydisp' = y
  /\ ev' = Event("scroll", <<>>)
  /\ IF "scroll" \in subs THEN Refresh(WholeWindow[1], WholeWindow[2])
     ELSE UNCHANGED debVars
  /\ UNCHANGED <<rows, bufLen, cellHeight, treeVars, lifeVars, liveVars>>

\* The debouncer's frame callback: _renderRows(start, end), once.
_renderRows(s, e) ==
  /\ text' = RenderText(s, e)
  /\ posinset' = RenderPosInSet(s, e)
  /\ setsize' = RenderSetSize(s, e)

Flush ==
  /\ pending
  /\ _renderRows(rowStart, rowEnd)
  /\ pending' = FALSE
  /\ rowStart' = 0
  /\ rowEnd' = 0
  /\ ev' = Event("flush", <<>>)
  /\ UNCHANGED <<termVars, rowElements, children, topL, botL, height, focus, lifeVars,
                 liveVars>>

\* ----------------------------------------------------------------- dispose
Dispose ==
  /\ rootAttached
  /\ subs' = {}
  /\ pending' = FALSE
  /\ rowStart' = 0
  /\ rowEnd' = 0
  /\ rootAttached' = FALSE
  /\ rowElements' = <<>>
  /\ focus' = NoNode
  /\ ev' = Event("dispose", <<>>)
  /\ UNCHANGED <<termVars, children, topL, botL, text, posinset, setsize, height,
                 timers, isMac, liveText, liveLineCount, charsToConsume, liveAttached>>

\* ------------------------------------------------------------ the window
\* The history variables a specification does not follow stay as they are.
NoHistory == UNCHANGED <<reqs, echo, fed>>

NextWindow ==
  \/ \E r \in 1..MaxRows : OnResize(r) /\ NoHistory
  \/ \E t \in Nodes : OnFocus(t) /\ NoHistory
  \/ OnFocusOut /\ NoHistory
  \/ \E s \in 0..(rows - 1), e \in 0..(rows - 1) : OnRefresh(s, e) /\ NoHistory
  \/ \E y \in 0..(bufLen - rows) : OnScroll(y) /\ NoHistory
  \/ Flush /\ NoHistory
  \/ Dispose /\ NoHistory

InitWindow ==
  /\ \E r \in 1..MaxRows, y \in 0..MaxBuf :
        y <= MaxBuf - r /\ Constructed(r, y, MaxCellHeight, FALSE)
  /\ reqs = {}
  /\ echo = NoEcho
  /\ fed = 0

SpecWindow == InitWindow /\ [][NextWindow]_vars

\* ------------------------------------------------------- row dimensions
\* The renderer measures its cells (0: no measure yet) and emits 'resize'.
OnRendererResize(c) ==
  /\ cellHeight' = c
  /\ ev' = Event("renderer.resize", <<>>)
  /\ height' = IF "renderer.resize" \in subs
                THEN RefreshRowsDimensions(height, rowElements, rows, c)
                ELSE height
  /\ UNCHANGED <<rows, bufLen, ydisp, rowElements, children, topL, botL, text,
                 posinset, setsize, focus, debVars, lifeVars, liveVars>>

\* 'dprchange' from the terminal.
OnDprChange ==
  /\ ev' = Event("dprchange", <<>>)
  /\ height' = IF "dprchange" \in subs
                THEN RefreshRowsDimensions(height, rowElements, rows, cellHeight)
                ELSE height
  /\ UNCHANGED <<termVars, rowElements, children, topL, botL, text, posinset, setsize,
                 focus, debVars, lifeVars, liveVars>>

\* 'resize' of the browser window.
OnWindowResize ==
  /\ ev' = Event("window.resize", <<>>)
  /\ height' = IF "window.resize" \in subs
                THEN RefreshRowsDimensions(height, rowElements, rows, cellHeight)
                ELSE height
  /\ UNCHANGED <<termVars, rowElements, children, topL, botL, text, posinset, setsize,
                 focus, debVars, lifeVars, liveVars>>

NextDims ==
  \/ \E r \in 1..MaxRows : OnResize(r) /\ NoHistory
  \/ \E t \in Nodes : OnFocus(t) /\ NoHistory
  \/ OnFocusOut /\ NoHistory
  \/ \E c \in 0..MaxCellHeight : OnRendererResize(c) /\ NoHistory
  \/ OnDprChange /\ NoHistory
  \/ OnWindowResize /\ NoHistory
  \/ Dispose /\ NoHistory

\* The manager may be constructed before the renderer has measured.
InitDims ==
  /\ \E r \in 1..MaxRows, y \in 0..MaxBuf, cell \in 0..MaxCellHeight :
        y <= MaxBuf - r /\ Constructed(r, y, cell, FALSE)
  /\ reqs = {}
  /\ echo = NoEcho
  /\ fed = 0

SpecDims == InitDims /\ [][NextDims]_vars

\* ------------------------------------------------------ focus navigation
\* The events that move the window and the focus; every refresh asks for the
\* whole window.
NextFocus ==
  \/ \E r \in 1..MaxRows : OnResize(r) /\ NoHistory
  \/ \E t \in Nodes : OnFocus(t) /\ NoHistory
  \/ OnFocusOut /\ NoHistory
  \/ \E y \in 0..(bufLen - rows) : OnScroll(y) /\ NoHistory
  \/ Flush /\ NoHistory

SpecFocus == InitWindow /\ [][NextFocus]_vars

\* --------------------------------------------------- the refresh requests
\* The same handlers, with the requests of the current tick written down.
Requested(r) == reqs' = reqs \cup {r}

NextRefresh ==
  \/ \E r \in 1..MaxRows : OnResize(r) /\ NoHistory
  \/ \E s \in 0..(rows - 1), e \in 0..(rows - 1) :
        /\ Cardinality(reqs \cup {<<s, e>>}) <= MaxReqs
        /\ OnRefresh(s, e)
        /\ IF "refresh" \in subs THEN Requested(<<s, e>>) ELSE UNCHANGED reqs
        /\ UNCHANGED <<echo, fed>>
  \/ \E y \in 0..(bufLen - rows) :
        /\ Cardinality(reqs \cup {WholeWindow}) <= MaxReqs
        /\ OnScroll(y)
        /\ IF "scroll" \in subs THEN Requested(WholeWindow) ELSE UNCHANGED reqs
        /\ UNCHANGED <<echo, fed>>
  \/ Flush /\ reqs' = {} /\ UNCHANGED <<echo, fed>>
  \/ Dispose /\ reqs' = {} /\ UNCHANGED <<echo, fed>>

InitRefresh ==
  /\ \E r \in 1..MaxRows, y \in 0..MaxBuf :
        y <= MaxBuf - r /\ Constructed(r, y, MaxCellHeight, FALSE)
  /\ reqs = {<<0, rows - 1>>}
  /\ echo = NoEcho
  /\ fed = 0

SpecRefresh == InitRefresh /\ [][NextRefresh]_vars


\* ------------------------------------------------------------ live region
\* Strings.tooMuchOutput
tooMuchOutput == "Too much output to announce, navigate to rows manually to read"
LF == "\n"
\* textContent after innerHTML += '&nbsp;'
nbsp == "nbsp"

\* The live region state the handlers work on.
Live == [text |-> liveText, count |-> liveLineCount, queue |-> charsToConsume,
         timers |-> timers]

\* _announceCharacter
_announceCharacter(L, char) ==
  [L EXCEPT !.text = Append(@, IF char = " " THEN nbsp ELSE char)]

\* _onChar, lines 198-206: drop the character when it echoes the key at the
\* head of the queue.
\* Mutant: the head of the queue is read but not removed.
ConsumeOrAnnounce_NoShift(L, char) ==
  IF Len(L.queue) > 0
  THEN IF Head(L.queue) # char THEN _announceCharacter(L, char) ELSE L
  ELSE _announceCharacter(L, char)
ConsumeOrAnnounce(L, char) ==
  IF Len(L.queue) > 0
  THEN LET shiftedChar == Head(L.queue)
           L1 == [L EXCEPT !.queue = Tail(@)]
       IN IF shiftedChar # char THEN _announceCharacter(L1, char) ELSE L1
  ELSE _announceCharacter(L, char)

\* _onChar, lines 208-213
\* Mutant: the notice comes one line early.
CountLine_Early(L, char) ==
  IF char = LF
  THEN LET L1 == [L EXCEPT !.count = @ + 1]
       IN IF L1.count = MAX_ROWS_TO_READ
          THEN [L1 EXCEPT !.text = Append(@, tooMuchOutput)]
          ELSE L1
  ELSE L
CountLine(L, char) ==
  IF char = LF
  THEN LET L1 == [L EXCEPT !.count = @ + 1]
       IN IF L1.count = MAX_ROWS_TO_READ + 1
          THEN [L1 EXCEPT !.text = Append(@, tooMuchOutput)]
          ELSE L1
  ELSE L

\* _onChar, lines 215-222: on mac, a populated detached region is attached
\* again from a timeout.
\* Mutant: no reattachment is scheduled.
ScheduleAttach_Never(L) == L
ScheduleAttach(L) ==
  IF isMac /\ Len(L.text) > 0 /\ ~liveAttached
  THEN [L EXCEPT !.timers = @ + 1]
  ELSE L

\* Mutant: the gate lets one more line through.
Gate_Late(L) == L.count < MAX_ROWS_TO_READ + 2
Gate(L) == L.count < MAX_ROWS_TO_READ + 1

_onChar(L, char) ==
  IF Gate(L) THEN ScheduleAttach(CountLine(ConsumeOrAnnounce(L, char), char)) ELSE L

\* _onTab: spaceCount calls of _onChar(' ')
RECURSIVE _onTab(_, _)
_onTab(L, spaceCount) ==
  IF spaceCount <= 0 THEN L ELSE _onTab(_onChar(L, " "), spaceCount - 1)

\* _clearLiveRegion
\* Mutant: the line counter is not reset.
_clearLiveRegion_KeepCount(L) == [L EXCEPT !.text = <<>>]
_clearLiveRegion(L) == [L EXCEPT !.text = <<>>, !.count = 0]
DetachOnClear == IF isMac /\ liveAttached THEN FALSE ELSE liveAttached

\* _onKey
_onKey(L, keyChar) == [_clearLiveRegion(L) EXCEPT !.queue = Append(@, keyChar)]

SetLive(L) ==
  /\ liveText' = L.text
  /\ liveLineCount' = L.count
  /\ charsToConsume' = L.queue
  /\ timers' = L.timers

\* The part of the state the live region events leave alone.
liveFrame == <<termVars, treeVars, debVars, lifeVars, isMac>>

\* 'a11y.char'
OnChar(char) ==
  /\ ev' = CharEvent("a11y.char", char)
  /\ SetLive(IF "a11y.char" \in subs THEN _onChar(Live, char) ELSE Live)
  /\ UNCHANGED <<liveFrame, liveAttached>>

\* 'linefeed'
OnLineFeed ==
  /\ ev' = CharEvent("linefeed", LF)
  /\ SetLive(IF "linefeed" \in subs THEN _onChar(Live, LF) ELSE Live)
  /\ UNCHANGED <<liveFrame, liveAttached>>

\* 'a11y.tab'
OnTab(spaceCount) ==
  /\ ev' = Event("a11y.tab", <<>>)
  /\ SetLive(IF "a11y.tab" \in subs THEN _onTab(Live, spaceCount) ELSE Live)
  /\ UNCHANGED <<liveFrame, liveAttached>>

\* 'key'
OnKey(keyChar) ==
  /\ ev' = CharEvent("key", keyChar)
  /\ IF "key" \in subs
     THEN SetLive(_onKey(Live, keyChar)) /\ liveAttached' = DetachOnClear
     ELSE SetLive(Live) /\ UNCHANGED liveAttached
  /\ UNCHANGED liveFrame

\* 'blur'
OnBlur ==
  /\ ev' = Event("blur", <<>>)
  /\ IF "blur" \in subs
     THEN SetLive(_clearLiveRegion(Live)) /\ liveAttached' = DetachOnClear
     ELSE SetLive(Live) /\ UNCHANGED liveAttached
  /\ UNCHANGED liveFrame

\* The callback of setTimeout(..., 0): appendChild(this._liveRegion).
OnTimeout ==
  /\ timers > 0
  /\ timers' = timers - 1
  /\ liveAttached' = TRUE
  /\ ev' = Event("timeout", <<>>)
  /\ UNCHANGED <<liveFrame, liveText, liveLineCount, charsToConsume>>

\* The model's bounds on what the events may pile up.
Bounded(L) ==
  /\ Len(L.text) <= MaxLive
  /\ Len(L.queue) <= MaxQueue
  /\ L.timers <= MaxTimers

OutChars == {"a", " "}
KeyChars == {"a", LF}

\* A run of keys typed from some state on and then echoed in the same order:
\* keys are the keys typed, n is how many of them have been echoed, startEmpty
\* tells whether the queue was empty before the first of them, live whether
\* no other event has come in between.
EchoKey(keyChar) ==
  echo' = IF echo.live /\ echo.n = 0
          THEN [echo EXCEPT !.keys = Append(@, keyChar)]
          ELSE [live |-> TRUE, startEmpty |-> charsToConsume = <<>>,
                keys |-> <<keyChar>>, n |-> 0]
EchoChar(char) ==
  echo' = IF echo.live /\ echo.n < Len(echo.keys) /\ echo.keys[echo.n + 1] = char
          THEN [echo EXCEPT !.n = @ + 1]
          ELSE NoEcho
EchoBroken == echo' = NoEcho

NoLiveHistory == UNCHANGED <<reqs, echo, fed>>

NextLive ==
  \/ \E c \in OutChars : Bounded(_onChar(Live, c)) /\ OnChar(c) /\ NoLiveHistory
  \/ Bounded(_onChar(Live, LF)) /\ OnLineFeed /\ NoLiveHistory
  \/ \E k \in 1..MaxTab : Bounded(_onTab(Live, k)) /\ OnTab(k) /\ NoLiveHistory
  \/ \E c \in KeyChars : Bounded(_onKey(Live, c)) /\ OnKey(c) /\ NoLiveHistory
  \/ OnBlur /\ NoLiveHistory
  \/ OnTimeout /\ NoLiveHistory
  \/ Dispose /\ NoLiveHistory

\* The live region specifications start from a one-row terminal: the events
\* they deliver do not touch the window.
InitLive ==
  /\ \E mac \in BOOLEAN : Constructed(1, 0, MaxCellHeight, mac)
  /\ reqs = {}
  /\ echo = NoEcho
  /\ fed = 0

SpecLive == InitLive /\ [][NextLive]_vars

\* A callback handed to setTimeout(..., 0) runs once the handlers before it
\* have returned: it is not put off for ever.
SpecLiveFair == SpecLive /\ WF_vars(OnTimeout /\ NoLiveHistory)

\* The same events with the typed-then-echoed runs followed.
NextEcho ==
  \/ \E c \in OutChars :
        Bounded(_onChar(Live, c)) /\ OnChar(c) /\ EchoChar(c) /\ UNCHANGED <<reqs, fed>>
  \/ Bounded(_onChar(Live, LF)) /\ OnLineFeed /\ EchoChar(LF) /\ UNCHANGED <<reqs, fed>>
  \/ \E k \in 1..MaxTab :
        Bounded(_onTab(Live, k)) /\ OnTab(k) /\ EchoBroken /\ UNCHANGED <<reqs, fed>>
  \/ \E c \in KeyChars :
        Bounded(_onKey(Live, c)) /\ OnKey(c) /\ EchoKey(c) /\ UNCHANGED <<reqs, fed>>
  \/ OnBlur /\ EchoBroken /\ UNCHANGED <<reqs, fed>>
  \/ OnTimeout /\ UNCHANGED <<reqs, echo, fed>>

SpecEcho == InitLive /\ [][NextEcho]_vars


\* ------------------------------------------------------------ the row cap
\* Long outputs: the text may hold any number of line feeds and at most
\* MaxPrintable other glyphs, and the queue enough keys to outlast the cap.
Count(seq, S) == Cardinality({i \in 1..Len(seq) : seq[i] \in S})
Printables(seq) == Len(seq) - Count(seq, {LF, tooMuchOutput})
CapQueue == MAX_ROWS_TO_READ + 2
BoundedCap(L) ==
  /\ Printables(L.text) <= MaxPrintable
  /\ Len(L.queue) <= CapQueue
  /\ L.timers <= MaxTimers

NextCap ==
  \/ BoundedCap(_onChar(Live, "a")) /\ OnChar("a") /\ NoLiveHistory
  \/ BoundedCap(_onChar(Live, LF)) /\ OnLineFeed /\ NoLiveHistory
  \/ BoundedCap(_onTab(Live, 1)) /\ OnTab(1) /\ NoLiveHistory
  \/ BoundedCap(_onKey(Live, "a")) /\ OnKey("a") /\ NoLiveHistory
  \/ OnBlur /\ NoLiveHistory
  \/ OnTimeout /\ NoLiveHistory

SpecCap == InitLive /\ [][NextCap]_vars

\* ------------------------------------------------------- the fed scenario
\* From a cleared live region with an empty queue, MAX_ROWS_TO_READ + 1
\* lines are output, each one printable character and a line feed.  fed is
\* the number of these events delivered so far; a blur clears the region and
\* starts over.
FeedLength == 2 * (MAX_ROWS_TO_READ + 1)
FeedChar(k) == IF ((k + 1) \div 2) % 2 = 1 THEN "a" ELSE "b"

NextFeed ==
  \/ /\ fed < FeedLength
     /\ fed % 2 = 0
     /\ _onChar(Live, FeedChar(fed + 1)).timers <= MaxTimers
     /\ OnChar(FeedChar(fed + 1))
     /\ fed' = fed + 1
     /\ UNCHANGED <<reqs, echo>>
  \/ /\ fed < FeedLength
     /\ fed % 2 = 1
     /\ _onChar(Live, LF).timers <= MaxTimers
     /\ OnLineFeed
     /\ fed' = fed + 1
     /\ UNCHANGED <<reqs, echo>>
  \/ OnBlur /\ fed' = 0 /\ UNCHANGED <<reqs, echo>>
  \/ OnTimeout /\ NoLiveHistory

SpecFeed == InitLive /\ [][NextFeed]_vars


\* ================================================================= claims
Disposed == ~rootAttached
Top == rowElements[1]
Bottom == rowElements[Len(rowElements)]

\* C1: until dispose, after construction and after every handler, the window
\* holds as many row nodes as the terminal has rows.
C1_WindowLength == ~Disposed => Len(rowElements) = rows
\* A resize has grown a window that a boundary crossing had shifted before.
C1_Witness ==
  /\ ev.op = "resize"
  /\ rows = MaxRows
  /\ Len(rowElements) = MaxRows
  /\ Top # 1

\* C2: until dispose, the top listener is on the first node of the window and
\* on no other node, and the bottom listener on the last node and no other;
\* no node outside the window carries a listener.
C2_TwoSubscriptions == ~Disposed => topL = {Top} /\ botL = {Bottom}
\* A top crossing has moved both listeners.
C2_Witness ==
  /\ ev.op = "focus"
  /\ ev.cross = "TOP"
  /\ Len(rowElements) = MaxRows
  /\ topL = {Top}
  /\ botL = {Bottom}
  /\ Top # Bottom

\* C4: a boundary crossing keeps the window length, drops the node at the far
\* end, puts one node that was not in the window at the near end, keeps the
\* other nodes in order one index further, and asks the terminal for exactly
\* one scroll, by -1 (top) or +1 (bottom).
ShiftedDown(old, new) ==
  /\ Len(new) = Len(old)
  /\ new[1] \notin Range(old)
  /\ old[Len(old)] \notin Range(new)
  /\ \A i \in 1..(Len(old) - 1) : new[i + 1] = old[i]
ShiftedUp(old, new) ==
  /\ Len(new) = Len(old)
  /\ new[Len(new)] \notin Range(old)
  /\ old[1] \notin Range(new)
  /\ \A i \in 1..(Len(old) - 1) : new[i] = old[i + 1]
C4_CrossingStep ==
  /\ (ev'.op = "focus" /\ ev'.cross = "TOP") =>
        /\ ShiftedDown(rowElements, rowElements')
        /\ ShiftedDown(children, children')
        /\ ev'.scroll = <<-1>>
  /\ (ev'.op = "focus" /\ ev'.cross = "BOTTOM") =>
        /\ ShiftedUp(rowElements, rowElements')
        /\ ShiftedUp(children, children')
        /\ ev'.scroll = <<1>>
C4_Crossing == [][C4_CrossingStep]_vars
\* A bottom crossing of a full-height window has happened.
C4_Witness ==
  /\ ev.op = "focus"
  /\ ev.cross = "BOTTOM"
  /\ Len(rowElements) = MaxRows
  /\ ev.scroll = <<1>>

\* C5: a focus event on the top node while the window shows the first line
\* of the buffer, or on the bottom node while it shows the last line, changes
\* no window node, no listener and asks for no scroll.
ShowsFirstLine == ydisp = 0
ShowsLastLine == ydisp + rows = bufLen
C5_EdgeStep ==
  (/\ ev'.op = "focus"
   /\ ~Disposed
   /\ \/ ev'.target = Top /\ ShowsFirstLine
      \/ ev'.target = Bottom /\ ShowsLastLine)
  => /\ UNCHANGED <<rowElements, children, topL, botL, text, posinset, setsize, height>>
     /\ ev'.scroll = <<>>
C5_NoShiftAtBufferEdge == [][C5_EdgeStep]_vars


\* C3: the flush of a tick is the only one pending, it is handed the range
\* from the least requested start to the greatest requested end of the
\* requests made since the last flush, and it changes text, position-in-set
\* and set-size of no node outside that range.
ReqMin == CHOOSE s \in {r[1] : r \in reqs} : \A r \in reqs : s <= r[1]
ReqMax == CHOOSE e \in {r[2] : r \in reqs} : \A r \in reqs : e >= r[2]
InRange(n, s, e) == \E i \in s..e : i >= 0 /\ i < Len(rowElements) /\ rowElements[i + 1] = n
C3_FlushStep ==
  ev'.op = "flush" =>
    /\ reqs # {}
    /\ rowStart = ReqMin
    /\ rowEnd = ReqMax
    /\ ~pending'
    /\ \A n \in Nodes :
         ~InRange(n, ReqMin, ReqMax) =>
            text'[n] = text[n] /\ posinset'[n] = posinset[n] /\ setsize'[n] = setsize[n]
C3_OneFlushPerTick == [](pending <=> reqs # {}) /\ [][C3_FlushStep]_vars
\* A flush of a range that starts after the first row has run: the first
\* node keeps the position of an earlier view, the second has the new one.
C3_Witness ==
  /\ ev.op = "flush"
  /\ Len(rowElements) = MaxRows
  /\ posinset[Top] \notin {0, ydisp + 1}
  /\ posinset[rowElements[2]] = ydisp + 2

\* C6 as stated: whenever keys c1..ck have been typed and then the first of
\* them echoed in order with no other event in between, the live region is
\* empty.
C6_EchoSilentFromAnyState == (echo.live /\ echo.n >= 1) => liveText = <<>>
\* C6 amended: the same when the queue was empty before c1 was typed (the one
\* text that can still appear is the truncation notice, when the echoed keys
\* hold MAX_ROWS_TO_READ + 1 line feeds); and a character or line feed that
\* arrives while the queue is empty and the counter is below the cap + 1 is
\* appended to the live region.
EchoedLineFeeds == Count(SubSeq(echo.keys, 1, echo.n), {LF})
C6_EchoSilent ==
  (echo.live /\ echo.startEmpty /\ echo.n >= 1) =>
     \/ liveText = <<>>
     \/ liveText = <<tooMuchOutput>> /\ EchoedLineFeeds >= MAX_ROWS_TO_READ + 1
C6_AnnounceStep ==
  (/\ ev'.op \in {"a11y.char", "linefeed"}
   /\ charsToConsume = <<>>
   /\ liveLineCount < MAX_ROWS_TO_READ + 1)
  => /\ Len(liveText') > Len(liveText)
     /\ SubSeq(liveText', 1, Len(liveText) + 1)
          = Append(liveText, IF ev'.char = " " THEN nbsp ELSE ev'.char)
C6_EchoSuppression == []C6_EchoSilent /\ [][C6_AnnounceStep]_vars
\* Two keys typed on an empty queue have both been echoed.
C6_Witness ==
  /\ echo.live
  /\ echo.startEmpty
  /\ echo.n = 2
  /\ Len(echo.keys) = 2
  /\ charsToConsume = <<>>
  /\ liveText = <<>>

\* C7: the counter never passes the cap + 1; the text holds the notice, once
\* and at its end, exactly while the counter is at the cap + 1; and at the
\* cap + 1 no character, tab or line feed event changes the text, the counter
\* or the queue.
C7_Notice ==
  /\ liveLineCount <= MAX_ROWS_TO_READ + 1
  /\ Count(liveText, {tooMuchOutput}) = (IF liveLineCount = MAX_ROWS_TO_READ + 1 THEN 1 ELSE 0)
  /\ liveLineCount = MAX_ROWS_TO_READ + 1 => liveText[Len(liveText)] = tooMuchOutput
C7_FrozenStep ==
  (liveLineCount = MAX_ROWS_TO_READ + 1 /\ ev'.op \in {"a11y.char", "linefeed", "a11y.tab"})
  => UNCHANGED <<liveText, liveLineCount, charsToConsume>>
C7_Truncation == []C7_Notice /\ [][C7_FrozenStep]_vars
\* A character has arrived at the cap + 1 with keys still in the queue.
C7_Witness ==
  /\ liveLineCount = MAX_ROWS_TO_READ + 1
  /\ ev.op = "a11y.char"
  /\ charsToConsume # <<>>
  /\ Count(liveText, {tooMuchOutput}) = 1

\* C8 as stated: after the cap + 1 lines the text holds exactly cap lines,
\* then the notice, and the counter is cap + 1.
Lines(seq) == Count(seq, {LF})
C8_CapLines ==
  fed = FeedLength =>
    /\ Lines(liveText) = MAX_ROWS_TO_READ
    /\ Count(liveText, {tooMuchOutput}) = 1
    /\ liveText[Len(liveText)] = tooMuchOutput
    /\ liveLineCount = MAX_ROWS_TO_READ + 1
\* C8 amended: the text holds all cap + 1 lines as fed, then the notice, and
\* the counter is cap + 1.
FedText == [k \in 1..FeedLength |-> IF k % 2 = 1 THEN FeedChar(k) ELSE LF]
C8_AllLinesThenNotice ==
  fed = FeedLength =>
    /\ liveText = Append(FedText, tooMuchOutput)
    /\ Lines(liveText) = MAX_ROWS_TO_READ + 1
    /\ liveLineCount = MAX_ROWS_TO_READ + 1
\* The scenario has run to its end.
C8_Witness == fed = FeedLength /\ Len(liveText) = FeedLength + 1

\* C9: once dispose has returned no callback of the manager runs and nothing
\* of the accessible subtree changes.
C9_QuietStep ==
  Disposed =>
    /\ ev'.op \notin {"timeout", "flush"}
    /\ UNCHANGED <<rowElements, children, text, posinset, setsize, height,
                   liveText, liveAttached>>
C9_QuietAfterDispose == [][C9_QuietStep]_vars

\* C10: when dispose has returned no subscription is left, the boundary
\* focus listeners included, no flush is pending, the subtree is detached
\* and the window is empty.
C10_AllReleased ==
  Disposed =>
    /\ subs = {}
    /\ ~pending
    /\ topL = {}
    /\ botL = {}
    /\ rowElements = <<>>

\* C11: a flush reads and writes only window indices from 0 up to the window
\* length, also when a resize to fewer rows came between the request and the
\* flush.
C11_FlushStep ==
  ev'.op = "flush" =>
    \A i \in Accessed(rowStart, rowEnd) : i >= 0 /\ i < Len(rowElements)
C11_FlushInsideWindow == [][C11_FlushStep]_vars

\* C12: right after a flush of the range start..end every window node at an
\* index i of the range has position-in-set ydisp + i + 1, set-size the
\* number of buffer lines, and as text the line ydisp + i, or the blank line
\* text when that line is empty; its text is not empty.
LineText(row) ==
  IF translateBufferLineToString(row) = "" THEN blankLine
  ELSE translateBufferLineToString(row)
C12_FlushStep ==
  ev'.op = "flush" =>
    \A i \in rowStart..rowEnd :
      (i >= 0 /\ i < Len(rowElements')) =>
        LET n == rowElements'[i + 1]
        IN /\ posinset'[n] = ydisp' + i + 1
           /\ setsize'[n] = bufLen'
           /\ text'[n] = LineText(ydisp' + i)
           /\ text'[n] # ""
C12_FlushedNodes == [][C12_FlushStep]_vars
\* A flush has written the blank line text to the second node and the text
\* of a line to the first, after the view had moved.
C12_Witness ==
  /\ ev.op = "flush"
  /\ Len(rowElements) >= 2
  /\ ydisp > 0
  /\ text[rowElements[1]] = ToString(ydisp)
  /\ text[rowElements[2]] = blankLine
  /\ posinset[rowElements[2]] = ydisp + 2

\* The shift and the resize, as the steps of the handler that has just run.
Crossed == ev'.op = "focus" /\ ev'.cross # "NONE"
CrossTrace == CrossSteps(ev'.target, ev'.cross)
Evicted == RemovedByCross(ev'.target, ev'.cross)
Resized == ev'.op = "resize" /\ "resize" \in subs
ResizeTrace == ResizeSteps(rows', rows')
Last(tr) == tr[Len(tr)]
EndsIn(h) ==
  /\ rowElements' = h.re
  /\ children' = h.ch
  /\ topL' = h.tl
  /\ botL' = h.bl
Boundaries(h) == h.tl = {h.re[1]} /\ h.bl = {h.re[Len(h.re)]}
InWindow(n, h) == n \in Range(h.re) /\ n \in Range(h.ch)
Listens(n, h) == n \in h.tl \cup h.bl
\* From the step at which the new node is in the window and on the surface
\* only the two listeners are attached: first the top, then the bottom one.
AttachedRightAfterInsert(tr) ==
  \E k \in 1..(Len(tr) - 2) :
    /\ \A j \in 1..(k - 1) : ~InWindow(rowElements'[IF ev'.cross = "TOP" THEN 1 ELSE Len(rowElements')], tr[j])
    /\ InWindow(rowElements'[IF ev'.cross = "TOP" THEN 1 ELSE Len(rowElements')], tr[k])
    /\ k + 2 = Len(tr)
    /\ tr[k + 1] = [tr[k] EXCEPT !.tl = @ \cup {tr[k].re[1]}]
    /\ tr[k + 2] = [tr[k + 1] EXCEPT !.bl = @ \cup {tr[k].re[Len(tr[k].re)]}]
    /\ Boundaries(tr[k + 2])

\* C13 as stated: during a crossing the evicted node has lost its listener
\* at every step at which it is no longer in the window or no longer on the
\* surface, and the listeners are attached right after the new node is in.
C13_DetachBeforeEvictStep ==
  Crossed =>
    /\ EndsIn(Last(CrossTrace))
    /\ \A k \in 1..Len(CrossTrace) :
          ~InWindow(Evicted, CrossTrace[k]) => ~Listens(Evicted, CrossTrace[k])
    /\ AttachedRightAfterInsert(CrossTrace)
C13_DetachBeforeInsertStep ==
  Crossed =>
    /\ EndsIn(Last(CrossTrace))
    /\ \E k \in 1..Len(CrossTrace) :
          ~InWindow(Evicted, CrossTrace[k]) /\ Listens(Evicted, CrossTrace[k])
    /\ \A k \in 1..Len(CrossTrace) :
          Listens(Evicted, CrossTrace[k]) =>
            Range(CrossTrace[k].re) \cup Range(CrossTrace[k].ch) \subseteq Range(rowElements)
    /\ ~Listens(Evicted, Last(CrossTrace))
    /\ AttachedRightAfterInsert(CrossTrace)
OneEachSide(h) == Cardinality(h.tl) <= 1 /\ Cardinality(h.bl) <= 1
C14_Step ==
  /\ Crossed =>
        /\ EndsIn(Last(CrossTrace))
        /\ \A k \in 1..Len(CrossTrace) : OneEachSide(CrossTrace[k])
        /\ \E k \in 1..Len(CrossTrace) : CrossTrace[k].tl = {} /\ CrossTrace[k].bl = {}
  /\ Resized =>
        /\ EndsIn(Last(ResizeTrace))
        /\ \A k \in 1..Len(ResizeTrace) : OneEachSide(ResizeTrace[k])
        /\ \E k \in 1..Len(ResizeTrace) : ResizeTrace[k].bl = {}
C14_DetachBeforeAttach == [][C14_Step]_vars
\* A resize has grown a shifted window: the bottom listener has moved from
\* the old last node to the new one.
C14_Witness ==
  /\ ev.op = "resize"
  /\ Len(rowElements) = MaxRows
  /\ Top # 1
  /\ botL = {Bottom}
  /\ topL = {Top}
  /\ pending

\* C15: when a crossing has completed, focus is on the window node at index
\* 1 (top crossing) or at index length - 2 (bottom crossing), a node of the
\* surface; it is neither the new boundary node nor the evicted node.
NewBoundary == IF ev'.cross = "TOP" THEN rowElements'[1] ELSE rowElements'[Len(rowElements')]
C15_Step ==
  Crossed =>
    /\ focus' = (IF ev'.cross = "TOP" THEN rowElements'[2]
                 ELSE rowElements'[Len(rowElements') - 1])
    /\ focus' \in Range(children')
    /\ focus' # NewBoundary
    /\ focus' # Evicted
C15_FocusOneStepIn == [][C15_Step]_vars
\* A top crossing of a two-row window: the focused node at index 1 is the
\* bottom node, and the node focus came from has been evicted.
C15_Witness ==
  /\ ev.op = "focus"
  /\ ev.cross = "TOP"
  /\ Len(rowElements) = 2
  /\ focus = rowElements[2]
  /\ focus \in botL
  /\ ydisp < bufLen - rows

\* C16 as stated: after a crossing, focus is on the node that was the
\* before-boundary node before the shift, the node focus arrived from.
C16_OriginKeepsFocusStep ==
  Crossed =>
    /\ focus = BeforeBoundaryElement(rowElements, ev'.cross)
    /\ focus' = focus
C16_OriginKeepsFocus == [][C16_OriginKeepsFocusStep]_vars
\* C16 amended: after a crossing, focus is on the node that is the
\* before-boundary node of the shifted window; by identity it is the former
\* boundary node, the target of the focus event, and not the node focus
\* arrived from.
C16_TargetKeepsFocusStep ==
  Crossed =>
    /\ focus = BeforeBoundaryElement(rowElements, ev'.cross)
    /\ ev'.target = (IF ev'.cross = "TOP" THEN Top ELSE Bottom)
    /\ focus' = ev'.target
    /\ focus' = BeforeBoundaryElement(rowElements', ev'.cross)
    /\ focus' # focus
C16_TargetKeepsFocus == [][C16_TargetKeepsFocusStep]_vars
\* A bottom crossing of a full-height window: focus is on the target, now
\* second to last, and the node focus came from is one index before it.
C16_Witness ==
  /\ ev.op = "focus"
  /\ ev.cross = "BOTTOM"
  /\ Len(rowElements) = MaxRows
  /\ focus = ev.target
  /\ focus = rowElements[MaxRows - 1]
  /\ focus \notin topL \cup botL

\* C17: a focus event on a boundary node that focus did not reach from the
\* adjacent inner node (index 1 for the top node, index length - 2 for the
\* bottom node; a one-row window has no such node) shifts nothing: window,
\* surface, listeners, node attributes and scroll offset stay as they are,
\* no scroll is asked for, and focus stays on the node the event went to.
NotFromInner(t) ==
  /\ t \in {Top, Bottom}
  /\ t = Top => focus # BeforeBoundaryElement(rowElements, "TOP")
  /\ t = Bottom => focus # BeforeBoundaryElement(rowElements, "BOTTOM")
C17_Step ==
  (ev'.op = "focus" /\ NotFromInner(ev'.target)) =>
    /\ UNCHANGED <<rowElements, children, topL, botL, text, posinset, setsize, height>>
    /\ UNCHANGED ydisp
    /\ ev'.scroll = <<>>
    /\ ev'.cross = "NONE"
    /\ focus' = ev'.target
C17_NoShiftFromElsewhere == [][C17_Step]_vars
\* Focus has come to the top node of a full-height window that is not at
\* the first buffer line, and has stayed there.
C17_Witness ==
  /\ ev.op = "focus"
  /\ ev.cross = "NONE"
  /\ ev.target = Top
  /\ focus = Top
  /\ posinset[Top] > 1
  /\ Len(rowElements) = MaxRows

\* C18: until dispose, a key press and a blur leave the live region with no
\* text and line counter 0, detached on mac and attached as before elsewhere;
\* a key press appends its character to the end of the queue and a blur
\* leaves the queue as it is; neither changes the window, the surface, the
\* listeners or the row nodes.
Cleared ==
  /\ liveText' = <<>>
  /\ liveLineCount' = 0
  /\ liveAttached' = (IF isMac THEN FALSE ELSE liveAttached)
  /\ UNCHANGED treeVars
C18_Step ==
  /\ (ev'.op = "key" /\ ~Disposed) =>
        Cleared /\ charsToConsume' = Append(charsToConsume, ev'.char)
  /\ (ev'.op = "blur" /\ ~Disposed) =>
        Cleared /\ charsToConsume' = charsToConsume
C18_KeyAndBlurClear == [][C18_Step]_vars
\* On mac a second key has been pressed while the live region held a line
\* and waited for its reattachment.
C18_Witness ==
  /\ ev.op = "key"
  /\ isMac
  /\ ~liveAttached
  /\ liveText = <<>>
  /\ liveLineCount = 0
  /\ Len(charsToConsume) = 2
  /\ timers > 0

\* C19: no row node has a height written while no positive cell height was
\* measured, node creation included (such a write leaves the height 0); and
\* after a resync with a positive cell height every node of the window has
\* that height, the nodes created by resize growth and by crossings too.
Resynced == ev'.op \in {"resize", "renderer.resize", "dprchange", "window.resize"}
C19_ResyncStep ==
  (Resynced /\ ~Disposed /\ cellHeight' > 0) =>
    \A n \in Range(rowElements') : height'[n] = cellHeight'
C19_NoWriteStep ==
  cellHeight' = 0 => \A n \in Nodes : height'[n] \in {height[n], -1}
C19_HeightsOnlyWhenMeasured ==
  /\ [](\A n \in Nodes : height[n] # 0)
  /\ [][C19_NoWriteStep]_vars
  /\ [][C19_ResyncStep]_vars

\* C20: on mac, until dispose, whenever the live region holds text and is
\* not attached a reattachment callback is pending; and as pending callbacks
\* do run, a live region that holds text while detached is in the end
\* attached or cleared, whatever keys, blurs and characters come in between.
PopulatedDetached == isMac /\ ~Disposed /\ liveText # <<>> /\ ~liveAttached
C20_Pending == PopulatedDetached => timers > 0
C20_Reattached ==
  /\ []C20_Pending
  /\ PopulatedDetached ~> (liveAttached \/ liveText = <<>>)
\* A character has been announced into the detached live region while a
\* reattachment was already pending.
C20_Witness ==
  /\ PopulatedDetached
  /\ ev.op = "a11y.char"
  /\ Len(liveText) = 2
  /\ timers = 2

====
